---- MODULE Spec2Model ----
(***************************************************************************)
(* Model of draw_boxes.py: the interactive bounding-box editor.            *)
(*                                                                         *)
(* One BoxEditor process is modelled together with the file system it      *)
(* reads and writes.  The process is started (BoxEditor.__init__), runs    *)
(* the event loop of BoxEditor.run (draw, then cv2.waitKey, during which   *)
(* OpenCV delivers mouse callbacks, then the key handlers), and ends by    *)
(* quitting or by an uncaught exception; it can then be started again.     *)
(*                                                                         *)
(* Numbers.  self.scale is the float max_dim / float(max(h, w)) or 1.0.    *)
(* It is modelled as the exact rational num/den, and Python's round() as   *)
(* round-half-to-even on rationals.  Floats can break a tie the other way  *)
(* (at max(h, w) = 1999, 500 / scale rounds to 999, the exact 999.5 to     *)
(* 1000); the images and points of this model are ones on which the float  *)
(* results and the exact results are the same.                             *)
(*                                                                         *)
(* Python values.  A JSON file can put values of any type into self.boxes, *)
(* so the elements of a box are tagged values [type, val] ("int" or        *)
(* "str"), a box is a sequence of them, and boxes_type is the Python type  *)
(* of self.boxes itself ("list" unless a load put something else there).   *)
(***************************************************************************)
EXTENDS Integers, Sequences, FiniteSets, TLC

(***************************************************************************)
(* Program constants                                                       *)
(***************************************************************************)
MAX_DISPLAY_DIM == 1000

EVENT_LBUTTONDOWN == "EVENT_LBUTTONDOWN"
EVENT_MOUSEMOVE == "EVENT_MOUSEMOVE"
EVENT_LBUTTONUP == "EVENT_LBUTTONUP"

\* Python's None, for the optional points and for "no index"
None == <<>>
NoIndex == -1

(***************************************************************************)
(* Bounds of the model                                                     *)
(***************************************************************************)
\* a drag can start only while the list holds fewer boxes than this
MaxBoxes == 2

(***************************************************************************)
(* Python values                                                           *)
(***************************************************************************)
PyInt(n) == [type |-> "int", val |-> n]
PyStr(id) == [type |-> "str", val |-> id]

\* the Python list [x, y, w, h] of four ints
PyBox(x, y, w, h) == <<PyInt(x), PyInt(y), PyInt(w), PyInt(h)>>

\* the plain integers of a list of ints
Ints(box) == [i \in 1..Len(box) |-> box[i].val]

\* x, y, w, h = box succeeds, and the four are numbers
IsBox(box) == Len(box) = 4 /\ \A i \in 1..4 : box[i].type = "int"

Max(a, b) == IF a >= b THEN a ELSE b
Min(a, b) == IF a <= b THEN a ELSE b
Abs(a) == IF a >= 0 THEN a ELSE -a

\* Python 3 round() of the rational n/d, d > 0: to nearest, ties to even
Round(n, d) ==
    LET q == n \div d
        r == n % d
    IN  IF 2 * r < d THEN q
        ELSE IF 2 * r > d THEN q + 1
        ELSE IF q % 2 = 0 THEN q ELSE q + 1

(***************************************************************************)
(* scale_for_display: the scale as the rational num/den                    *)
(***************************************************************************)
\* mutant: compares the smaller dimension with the cap
scale_for_display_min(h, w) ==
    IF Min(h, w) > MAX_DISPLAY_DIM
    THEN [num |-> MAX_DISPLAY_DIM, den |-> Max(h, w)]
    ELSE [num |-> 1, den |-> 1]

scale_for_display(h, w) ==
    IF Max(h, w) > MAX_DISPLAY_DIM
    THEN [num |-> MAX_DISPLAY_DIM, den |-> Max(h, w)]
    ELSE [num |-> 1, den |-> 1]

(***************************************************************************)
(* BoxEditor.disp_to_orig                                                  *)
(***************************************************************************)
\* mutant: clamps to dim, one past the last pixel
Clamp_to_dim(v, dim) == Max(0, Min(dim, v))

Clamp(v, dim) == Max(0, Min(dim - 1, v))

\* mutant: multiplies by the scale where the code divides
disp_to_orig_times(pt_disp, sc, w_o, h_o) ==
    LET x_disp == pt_disp[1]
        y_disp == pt_disp[2]
    IN  IF sc.num = 0
        THEN <<x_disp, y_disp>>
        ELSE <<Clamp(Round(x_disp * sc.num, sc.den), w_o),
               Clamp(Round(y_disp * sc.num, sc.den), h_o)>>

disp_to_orig(pt_disp, sc, w_o, h_o) ==
    LET x_disp == pt_disp[1]
        y_disp == pt_disp[2]
    IN  IF sc.num = 0
        THEN <<x_disp, y_disp>>
        ELSE <<Clamp(Round(x_disp * sc.den, sc.num), w_o),
               Clamp(Round(y_disp * sc.den, sc.num), h_o)>>

(***************************************************************************)
(* BoxEditor.orig_to_disp                                                  *)
(***************************************************************************)
orig_to_disp(box, sc) ==
    LET b == Ints(box)
    IN  <<Round(b[1] * sc.num, sc.den), Round(b[2] * sc.num, sc.den),
          Round(b[3] * sc.num, sc.den), Round(b[4] * sc.num, sc.den)>>

(***************************************************************************)
(* Mutants of add_box_from_disp                                            *)
(***************************************************************************)
\* mutant: discards a rectangle only when both sides are zero
add_box_from_disp_and(bxs, start_disp, end_disp, sc, w_o, h_o) ==
    LET p0 == disp_to_orig(start_disp, sc, w_o, h_o)
        p1 == disp_to_orig(end_disp, sc, w_o, h_o)
        x == Min(p0[1], p1[1])
        y == Min(p0[2], p1[2])
        w == Abs(p1[1] - p0[1])
        h == Abs(p1[2] - p0[2])
    IN  IF w = 0 /\ h = 0 THEN bxs ELSE Append(bxs, PyBox(x, y, w, h))

\* mutant: takes the start corner as the origin instead of the minimum
add_box_from_disp_start(bxs, start_disp, end_disp, sc, w_o, h_o) ==
    LET p0 == disp_to_orig(start_disp, sc, w_o, h_o)
        p1 == disp_to_orig(end_disp, sc, w_o, h_o)
        w == Abs(p1[1] - p0[1])
        h == Abs(p1[2] - p0[2])
    IN  IF w = 0 \/ h = 0 THEN bxs ELSE Append(bxs, PyBox(p0[1], p0[2], w, h))

\* mutant: puts the new box at the head of the list
add_box_from_disp_prepend(bxs, start_disp, end_disp, sc, w_o, h_o) ==
    LET p0 == disp_to_orig(start_disp, sc, w_o, h_o)
        p1 == disp_to_orig(end_disp, sc, w_o, h_o)
        x == Min(p0[1], p1[1])
        y == Min(p0[2], p1[2])
        w == Abs(p1[1] - p0[1])
        h == Abs(p1[2] - p0[2])
    IN  IF w = 0 \/ h = 0 THEN bxs ELSE <<PyBox(x, y, w, h)>> \o bxs

(***************************************************************************)
(* BoxEditor.add_box_from_disp: the box list after the call                *)
(***************************************************************************)
add_box_from_disp(bxs, start_disp, end_disp, sc, w_o, h_o) ==
    LET p0 == disp_to_orig(start_disp, sc, w_o, h_o)
        p1 == disp_to_orig(end_disp, sc, w_o, h_o)
        x == Min(p0[1], p1[1])
        y == Min(p0[2], p1[2])
        w == Abs(p1[1] - p0[1])
        h == Abs(p1[2] - p0[2])
    IN  IF w = 0 \/ h = 0 THEN bxs ELSE Append(bxs, PyBox(x, y, w, h))

(***************************************************************************)
(* BoxEditor.box_under_disp_point: Python's 0-based index, or NoIndex      *)
(***************************************************************************)
Hit(box, pt_disp, sc) ==
    LET r == orig_to_disp(box, sc)
        x == pt_disp[1]
        y == pt_disp[2]
    IN  x >= r[1] /\ x <= r[1] + r[3] /\ y >= r[2] /\ y <= r[2] + r[4]

RECURSIVE ScanFrom(_, _, _, _)
ScanFrom(i, bxs, pt_disp, sc) ==
    IF i > Len(bxs) THEN NoIndex
    ELSE IF Hit(bxs[i], pt_disp, sc) THEN i - 1
    ELSE ScanFrom(i + 1, bxs, pt_disp, sc)

\* mutant: the last box that contains the point wins
RECURSIVE ScanBack(_, _, _, _)
ScanBack(i, bxs, pt_disp, sc) ==
    IF i < 1 THEN NoIndex
    ELSE IF Hit(bxs[i], pt_disp, sc) THEN i - 1
    ELSE ScanBack(i - 1, bxs, pt_disp, sc)

box_under_disp_point_last(bxs, pt_disp, sc) == ScanBack(Len(bxs), bxs, pt_disp, sc)

\* mutant: counts the boxes from one
box_under_disp_point_from_one(bxs, pt_disp, sc) ==
    IF ScanFrom(1, bxs, pt_disp, sc) = NoIndex THEN NoIndex
    ELSE ScanFrom(1, bxs, pt_disp, sc) + 1

box_under_disp_point(bxs, pt_disp, sc) == ScanFrom(1, bxs, pt_disp, sc)

\* list.pop(idx) raises IndexError unless -len <= idx < len
PopRaises(bxs, idx) == idx \notin (0 - Len(bxs))..(Len(bxs) - 1)

\* mutant: pop() for pop(idx)
Pop_last(bxs, idx) == SubSeq(bxs, 1, Len(bxs) - 1)

\* list.pop(idx) and list.pop(): the list that is left
Pop(bxs, idx) == [i \in 1..(Len(bxs) - 1) |-> IF i <= idx THEN bxs[i] ELSE bxs[i + 1]]
\* mutant: pop(0) for pop()
PopLast_first(bxs) == Tail(bxs)

PopLast(bxs) == SubSeq(bxs, 1, Len(bxs) - 1)

(***************************************************************************)
(* JSON files.  A file is missing, or holds text that is not JSON           *)
(* ("garbage"), or holds a JSON document.  Of a document the model keeps   *)
(* the type of the top-level value, whether Python's `"boxes" in data`     *)
(* is true of it, and the members that save_boxes writes.                  *)
(***************************************************************************)
JNum(n) == [type |-> "number", val |-> n]
JStr(id) == [type |-> "string", val |-> id]

File(state, top, has_boxes, boxes_type, bxs, image, shape) ==
    [state |-> state, top |-> top, has_boxes |-> has_boxes,
     boxes_type |-> boxes_type, boxes |-> bxs, image |-> image, shape |-> shape]

NoFile == File("missing", "null", FALSE, "null", <<>>, "", <<0, 0>>)
GarbageFile == File("garbage", "null", FALSE, "null", <<>>, "", <<0, 0>>)
\* a document whose top-level value is not an object
ValueFile(top, has_boxes) == File("json", top, has_boxes, "null", <<>>, "", <<0, 0>>)
\* an object without / with a "boxes" member
ObjectFile == File("json", "object", FALSE, "null", <<>>, "", <<0, 0>>)
BoxesFile(boxes_type, bxs) == File("json", "object", TRUE, boxes_type, bxs, "", <<0, 0>>)

\* the types json.load gives JSON values, and json.dump gives Python values
JsonToPyType(t) ==
    CASE t = "array" -> "list"
      [] t = "number" -> "int"
      [] t = "string" -> "str"
      [] t = "object" -> "dict"
      [] OTHER -> "NoneType"
PyToJsonType(t) ==
    CASE t = "list" -> "array"
      [] t = "int" -> "number"
      [] t = "str" -> "string"
      [] t = "dict" -> "object"
      [] OTHER -> "null"

json_load_boxes(jbxs) ==
    [i \in 1..Len(jbxs) |->
        [j \in 1..Len(jbxs[i]) |->
            [type |-> JsonToPyType(jbxs[i][j].type), val |-> jbxs[i][j].val]]]
json_dump_boxes(bxs) ==
    [i \in 1..Len(bxs) |->
        [j \in 1..Len(bxs[i]) |->
            [type |-> PyToJsonType(bxs[i][j].type), val |-> bxs[i][j].val]]]

(***************************************************************************)
(* BoxEditor.load_boxes: self.boxes (its type and its elements) after the  *)
(* call.  Every exception is caught by the except clause, so the call      *)
(* always returns; what it has assigned by then stays assigned.            *)
(***************************************************************************)
load_boxes(file, old_type, old_bxs) ==
    LET caught == [type |-> old_type, val |-> old_bxs, printed |-> "Could not load boxes"]
        new_type == JsonToPyType(file.boxes_type)
    IN  IF file.state # "json" THEN caught                  \* open() or json.load raises
        ELSE IF file.top \in {"number", "null"} THEN caught  \* `in` raises TypeError
        ELSE IF ~file.has_boxes
        THEN [type |-> old_type, val |-> old_bxs, printed |-> "No 'boxes' key found"]
        ELSE IF file.top # "object" THEN caught             \* data["boxes"] raises TypeError
        ELSE [type |-> new_type,                            \* self.boxes = data["boxes"]
              val |-> json_load_boxes(file.boxes),
              \* len(self.boxes) raises TypeError for an int and for None
              printed |-> IF new_type \in {"int", "NoneType"}
                          THEN "Could not load boxes" ELSE "Loaded boxes"]

(***************************************************************************)
(* BoxEditor.save_boxes: the document written                              *)
(***************************************************************************)
\* mutant: leaves out the boxes no larger than 5 x 5
save_boxes_filtered(img_path, h_o, w_o, bxs_type, bxs) ==
    File("json", "object", TRUE, PyToJsonType(bxs_type),
         json_dump_boxes(SelectSeq(bxs, LAMBDA b : b[3].val > 5 /\ b[4].val > 5)),
         img_path, <<h_o, w_o>>)

save_boxes(img_path, h_o, w_o, bxs_type, bxs) ==
    File("json", "object", TRUE, PyToJsonType(bxs_type), json_dump_boxes(bxs),
         img_path, <<h_o, w_o>>)

(***************************************************************************)
(* BoxEditor.default_output_name.  An image is known by its path, with     *)
(* base = os.path.splitext(os.path.basename(path))[0], and by its shape.   *)
(***************************************************************************)
Image(dir, base, ext, h, w) ==
    [path |-> dir \o base \o ext, base |-> base, h |-> h, w |-> w]

default_output_name(img) == img.base \o "_boxes.json"

(***************************************************************************)
(* State                                                                   *)
(***************************************************************************)
VARIABLES
    pc,             \* where the process is: "off", "loop" (top of the while loop of
                    \* run), "waitKey" (inside cv2.waitKey), "exited", "crashed"
    last,           \* the step the process took last
    load_path,      \* the load_path argument of __init__ ("" for None)
    image_path,     \* self.image_path
    h_orig,         \* self.h_orig
    w_orig,         \* self.w_orig
    scale,          \* self.scale, the rational num/den
    drawing,        \* self.drawing
    start_pt_disp,  \* self.start_pt_disp
    cur_pt_disp,    \* self.cur_pt_disp
    boxes_type,     \* the Python type of self.boxes
    boxes,          \* the elements of self.boxes
    output_path,    \* self.output_path
    mouse_pos,      \* self.mouse_pos
    printed,        \* what the last step printed on the console ("" for nothing)
    fs,             \* the file system: path -> file
    probe           \* the point carried through the two coordinate mappings

session == <<load_path, image_path, h_orig, w_orig, scale, drawing, start_pt_disp,
             cur_pt_disp, boxes_type, boxes, output_path, mouse_pos>>
drag == <<drawing, start_pt_disp, cur_pt_disp>>
image == <<image_path, h_orig, w_orig, scale>>
vars == <<pc, last, session, printed, fs, probe>>

\* None or the empty string for a path argument
NoPath == ""

(***************************************************************************)
(* Inputs of the model                                                     *)
(***************************************************************************)
\* 2000 wide, 1000 high: scale 1/2
PageImage == Image("scans/", "page", ".png", 1000, 2000)
\* no larger than the display cap: scale 1
ThumbImage == Image("", "thumb", ".jpg", 600, 800)
\* higher than wide: scale 2/3
OddImage == Image("", "odd", ".png", 1500, 900)
\* scale 1/3, a little less than 1/3, and 1/4
ThirdImage == Image("", "third", ".png", 2000, 3000)
UnderThirdImage == Image("", "under", ".png", 3001, 1000)
QuarterImage == Image("", "quarter", ".png", 3000, 4000)
\* the larger dimension exactly at the display cap, and one pixel over it
CapImage == Image("", "cap", ".png", 750, 1000)
OverCapImage == Image("", "over", ".png", 500, 1001)

EditImages == {PageImage, ThumbImage, OddImage}
MapImages ==
    EditImages \cup {ThirdImage, UnderThirdImage, QuarterImage, CapImage, OverCapImage}

BoxesPath == "boxes.json"
Paths == {BoxesPath} \cup {default_output_name(img) : img \in MapImages}

\* what boxes.json holds before the first run
InputFiles ==
    { NoFile,
      GarbageFile,
      ValueFile("number", FALSE),
      ValueFile("array", FALSE),
      ValueFile("string", TRUE),
      ObjectFile,
      BoxesFile("number", <<>>),
      BoxesFile("null", <<>>),
      BoxesFile("string", <<>>),
      BoxesFile("array", <<>>),
      BoxesFile("array", << <<JNum(10), JNum(20), JNum(30), JNum(40)>>,
                            <<JNum(5), JNum(5), JNum(5), JNum(5)>> >>),
      BoxesFile("array", << <<JNum(10), JNum(20), JNum(30), JNum(40)>>,
                            <<JStr(1), JNum(1), JNum(2), JNum(3)>> >>),
      BoxesFile("array", << <<JNum(1), JNum(2), JNum(3)>>,
                            <<JNum(10), JNum(20), JNum(30), JNum(40)>> >>) }

\* pointer positions of the full program's specification
SpecPoints == { <<100, 100>>, <<300, 200>> }

\* pointer positions of the editing specification: inside the display surface,
\* left of it, and beyond its right and lower edges
EditPoints == { <<100, 100>>, <<300, 200>>, <<-40, 151>>, <<1200, 600>>, <<1300, 100>> }

MouseEvents == {EVENT_LBUTTONDOWN, EVENT_MOUSEMOVE, EVENT_LBUTTONUP}

NoProbe == [stage |-> "none", orig |-> <<0, 0>>, disp |-> <<0, 0>>, back |-> <<0, 0>>]

(***************************************************************************)
(* BoxEditor.__init__: the fields of the new object                        *)
(***************************************************************************)
NewSession(img, output_arg, load_arg, files) ==
    LET loaded == IF load_arg # NoPath
                  THEN load_boxes(files[load_arg], "list", <<>>)
                  ELSE [type |-> "list", val |-> <<>>, printed |-> ""]
    IN  [load_path |-> load_arg,
         image_path |-> img.path,
         h_orig |-> img.h,
         w_orig |-> img.w,
         scale |-> scale_for_display(img.h, img.w),
         drawing |-> FALSE,
         start_pt_disp |-> None,
         cur_pt_disp |-> None,
         boxes_type |-> loaded.type,
         boxes |-> loaded.val,
         output_path |-> IF output_arg # NoPath THEN output_arg
                         ELSE default_output_name(img),
         mouse_pos |-> <<0, 0>>,
         printed |-> loaded.printed]

\* the object as __init__ leaves it
Constructed(img, output_arg, load_arg) ==
    LET s == NewSession(img, output_arg, load_arg, fs)
    IN  /\ load_path = s.load_path
        /\ image_path = s.image_path
        /\ h_orig = s.h_orig
        /\ w_orig = s.w_orig
        /\ scale = s.scale
        /\ drawing = s.drawing
        /\ start_pt_disp = s.start_pt_disp
        /\ cur_pt_disp = s.cur_pt_disp
        /\ boxes_type = s.boxes_type
        /\ boxes = s.boxes
        /\ output_path = s.output_path
        /\ mouse_pos = s.mouse_pos
        /\ printed = s.printed

\* main(): a process is started on an image, with --output and --load or without
Start(img, output_arg, load_arg) ==
    /\ pc \in {"off", "exited", "crashed"}
    /\ LET s == NewSession(img, output_arg, load_arg, fs)
       IN  /\ load_path' = s.load_path
           /\ image_path' = s.image_path
           /\ h_orig' = s.h_orig
           /\ w_orig' = s.w_orig
           /\ scale' = s.scale
           /\ drawing' = s.drawing
           /\ start_pt_disp' = s.start_pt_disp
           /\ cur_pt_disp' = s.cur_pt_disp
           /\ boxes_type' = s.boxes_type
           /\ boxes' = s.boxes
           /\ output_path' = s.output_path
           /\ mouse_pos' = s.mouse_pos
           /\ printed' = s.printed
    /\ pc' = "loop"
    /\ last' = "init"
    /\ UNCHANGED <<fs, probe>>

(***************************************************************************)
(* BoxEditor.draw, called at the top of each iteration of run.  It reads   *)
(* only; it raises when self.boxes is not a list of four-number lists, and *)
(* nothing in run catches that.                                            *)
(***************************************************************************)
Drawable(bxs_type, bxs) == bxs_type = "list" /\ \A i \in 1..Len(bxs) : IsBox(bxs[i])

\* what draw() paints on its copy of the display image: the rectangle of every
\* box, the rubber band of the drag, the crosshair and the box count
draw(bxs, drw, start_disp, cur_disp, m_pos, sc) ==
    [rects |-> [i \in 1..Len(bxs) |->
                   LET d == orig_to_disp(bxs[i], sc)
                   IN  <<(<<d[1], d[2]>>), (<<d[1] + d[3], d[2] + d[4]>>)>>],
     rubber_band |-> IF drw /\ start_disp # None /\ cur_disp # None
                     THEN <<start_disp, cur_disp>> ELSE None,
     crosshair |-> m_pos,
     text |-> Len(bxs)]

\* the canvas draw() would return in the current state
canvas == draw(boxes, drawing, start_pt_disp, cur_pt_disp, mouse_pos, scale)

\* mutant: rendering consumes the drag it has painted
Draw_consumes_drag ==
    /\ pc = "loop"
    /\ pc' = IF Drawable(boxes_type, boxes) THEN "waitKey" ELSE "crashed"
    /\ last' = "draw"
    /\ printed' = IF Drawable(boxes_type, boxes) THEN "" ELSE "Traceback"
    /\ drawing' = FALSE /\ start_pt_disp' = None /\ cur_pt_disp' = None
    /\ UNCHANGED <<load_path, image, boxes_type, boxes, output_path, mouse_pos, fs, probe>>

Draw ==
    /\ pc = "loop"
    /\ pc' = IF Drawable(boxes_type, boxes) THEN "waitKey" ELSE "crashed"
    /\ last' = "draw"
    /\ printed' = IF Drawable(boxes_type, boxes) THEN "" ELSE "Traceback"
    /\ UNCHANGED <<session, fs, probe>>

(***************************************************************************)
(* BoxEditor.mouse_callback, delivered by OpenCV inside cv2.waitKey        *)
(***************************************************************************)
\* mutant: a release clears the drag only when it added a box
mouse_callback_keeps_drag(event, pt) ==
    /\ mouse_pos' = pt
    /\ IF event = EVENT_LBUTTONDOWN THEN
           /\ drawing' = TRUE
           /\ start_pt_disp' = pt
           /\ cur_pt_disp' = pt
           /\ printed' = ""
           /\ UNCHANGED boxes
       ELSE IF event = EVENT_MOUSEMOVE THEN
           /\ cur_pt_disp' = IF drawing THEN pt ELSE cur_pt_disp
           /\ printed' = ""
           /\ UNCHANGED <<drawing, start_pt_disp, boxes>>
       ELSE IF event = EVENT_LBUTTONUP THEN
           /\ boxes' = IF drawing /\ start_pt_disp # None
                       THEN add_box_from_disp(boxes, start_pt_disp, pt, scale, w_orig, h_orig)
                       ELSE boxes
           /\ printed' = IF boxes' # boxes THEN "Added box" ELSE ""
           /\ drawing' = (drawing /\ boxes' = boxes)
           /\ start_pt_disp' = IF boxes' # boxes THEN None ELSE start_pt_disp
           /\ cur_pt_disp' = IF boxes' # boxes THEN None ELSE cur_pt_disp
       ELSE printed' = "" /\ UNCHANGED <<drawing, start_pt_disp, cur_pt_disp, boxes>>

\* mutant: a move records the current point even when no drag is active
mouse_callback_hover(event, pt) ==
    /\ mouse_pos' = pt
    /\ IF event = EVENT_LBUTTONDOWN THEN
           /\ drawing' = TRUE
           /\ start_pt_disp' = pt
           /\ cur_pt_disp' = pt
           /\ printed' = ""
           /\ UNCHANGED boxes
       ELSE IF event = EVENT_MOUSEMOVE THEN
           /\ cur_pt_disp' = pt
           /\ printed' = ""
           /\ UNCHANGED <<drawing, start_pt_disp, boxes>>
       ELSE IF event = EVENT_LBUTTONUP THEN
           /\ boxes' = IF drawing /\ start_pt_disp # None
                       THEN add_box_from_disp(boxes, start_pt_disp, pt, scale, w_orig, h_orig)
                       ELSE boxes
           /\ printed' = IF boxes' # boxes THEN "Added box" ELSE ""
           /\ drawing' = FALSE
           /\ start_pt_disp' = None
           /\ cur_pt_disp' = None
       ELSE printed' = "" /\ UNCHANGED <<drawing, start_pt_disp, cur_pt_disp, boxes>>
\* mutant: a press during a drag commits the box of the drag it replaces
mouse_callback_commits(event, pt) ==
    /\ mouse_pos' = pt
    /\ IF event = EVENT_LBUTTONDOWN THEN
           /\ drawing' = TRUE
           /\ start_pt_disp' = pt
           /\ cur_pt_disp' = pt
           /\ printed' = ""
           /\ boxes' = IF drawing /\ start_pt_disp # None
                       THEN add_box_from_disp(boxes, start_pt_disp, pt, scale, w_orig, h_orig)
                       ELSE boxes
       ELSE IF event = EVENT_MOUSEMOVE THEN
           /\ cur_pt_disp' = IF drawing THEN pt ELSE cur_pt_disp
           /\ printed' = ""
           /\ UNCHANGED <<drawing, start_pt_disp, boxes>>
       ELSE IF event = EVENT_LBUTTONUP THEN
           /\ boxes' = IF drawing /\ start_pt_disp # None
                       THEN add_box_from_disp(boxes, start_pt_disp, pt, scale, w_orig, h_orig)
                       ELSE boxes
           /\ printed' = IF boxes' # boxes THEN "Added box" ELSE ""
           /\ drawing' = FALSE
           /\ start_pt_disp' = None
           /\ cur_pt_disp' = None
       ELSE printed' = "" /\ UNCHANGED <<drawing, start_pt_disp, cur_pt_disp, boxes>>
mouse_callback(event, pt) ==
    /\ mouse_pos' = pt
    /\ IF event = EVENT_LBUTTONDOWN THEN
           /\ drawing' = TRUE
           /\ start_pt_disp' = pt
           /\ cur_pt_disp' = pt
           /\ printed' = ""
           /\ UNCHANGED boxes
       ELSE IF event = EVENT_MOUSEMOVE THEN
           /\ cur_pt_disp' = IF drawing THEN pt ELSE cur_pt_disp
           /\ printed' = ""
           /\ UNCHANGED <<drawing, start_pt_disp, boxes>>
       ELSE IF event = EVENT_LBUTTONUP THEN
           /\ boxes' = IF drawing /\ start_pt_disp # None
                       THEN add_box_from_disp(boxes, start_pt_disp, pt, scale, w_orig, h_orig)
                       ELSE boxes
           /\ printed' = IF boxes' # boxes THEN "Added box" ELSE ""
           /\ drawing' = FALSE
           /\ start_pt_disp' = None
           /\ cur_pt_disp' = None
       ELSE printed' = "" /\ UNCHANGED <<drawing, start_pt_disp, cur_pt_disp, boxes>>

Mouse(event, pt) ==
    /\ pc = "waitKey"
    /\ event = EVENT_LBUTTONDOWN => Len(boxes) < MaxBoxes
    /\ mouse_callback(event, pt)
    /\ last' = event
    /\ UNCHANGED <<pc, load_path, image, boxes_type, output_path, fs, probe>>

(***************************************************************************)
(* BoxEditor.run: the key handlers, one per value cv2.waitKey returns      *)
(***************************************************************************)
\* ESC or q
KeyQuit ==
    /\ pc = "waitKey"
    /\ pc' = "exited"
    /\ last' = "key_q"
    /\ printed' = "Exiting."
    /\ UNCHANGED <<session, fs, probe>>

\* h
KeyHelp ==
    /\ pc = "waitKey"
    /\ pc' = "loop"
    /\ last' = "key_h"
    /\ printed' = "Help"
    /\ UNCHANGED <<session, fs, probe>>

\* no key within the 20 ms, or a key that run does not handle
KeyNone ==
    /\ pc = "waitKey"
    /\ pc' = "loop"
    /\ last' = "key_none"
    /\ printed' = ""
    /\ UNCHANGED <<session, fs, probe>>

\* mutant: catches the exception of a failed save and carries on
KeySave_swallows(io) ==
    /\ pc = "waitKey"
    /\ fs' = CASE io = "ok" ->
                    [fs EXCEPT ![output_path] =
                        save_boxes(image_path, h_orig, w_orig, boxes_type, boxes)]
               [] io = "open_fails" -> fs
               [] OTHER -> [fs EXCEPT ![output_path] = GarbageFile]
    /\ pc' = "loop"
    /\ last' = "key_s"
    /\ printed' = IF io = "ok" THEN "Saved boxes" ELSE ""
    /\ UNCHANGED <<session, probe>>

\* s: save_boxes().  open(path, "w") can fail, which leaves the file as it
\* was; the write can fail after open truncated the file, which leaves part
\* of a document.  Either exception leaves run.
KeySave(io) ==
    /\ pc = "waitKey"
    /\ fs' = CASE io = "ok" ->
                    [fs EXCEPT ![output_path] =
                        save_boxes(image_path, h_orig, w_orig, boxes_type, boxes)]
               [] io = "open_fails" -> fs
               [] OTHER -> [fs EXCEPT ![output_path] = GarbageFile]
    /\ pc' = IF io = "ok" THEN "loop" ELSE "crashed"
    /\ last' = "key_s"
    /\ printed' = IF io = "ok" THEN "Saved boxes" ELSE "Traceback"
    /\ UNCHANGED <<session, probe>>

\* u
\* mutant: undo also abandons the drag in progress
KeyUndo_cancels_drag ==
    /\ pc = "waitKey"
    /\ boxes' = IF boxes # <<>> THEN PopLast(boxes) ELSE boxes
    /\ printed' = IF boxes # <<>> THEN "Undone last box" ELSE "No boxes to undo."
    /\ drawing' = FALSE /\ start_pt_disp' = None /\ cur_pt_disp' = None
    /\ pc' = "loop"
    /\ last' = "key_u"
    /\ UNCHANGED <<load_path, image, boxes_type, output_path, mouse_pos, fs, probe>>

KeyUndo ==
    /\ pc = "waitKey"
    /\ boxes' = IF boxes # <<>> THEN PopLast(boxes) ELSE boxes
    /\ printed' = IF boxes # <<>> THEN "Undone last box" ELSE "No boxes to undo."
    /\ pc' = "loop"
    /\ last' = "key_u"
    /\ UNCHANGED <<load_path, image, drag, boxes_type, output_path, mouse_pos, fs, probe>>

\* the answers typed at the prompt of reset, and confirm.strip().lower() of each
ConfirmAnswers == {"yes", " Yes ", "YES", "no", "y", ""}

strip_lower(answer) ==
    CASE answer \in {"yes", " Yes ", "YES"} -> "yes"
      [] OTHER -> answer

\* mutant: clears the list whatever the answer
KeyReset_unconditional(confirm) ==
    /\ pc = "waitKey"
    /\ boxes' = <<>>
    /\ printed' = IF strip_lower(confirm) = "yes"
                   THEN "All boxes removed." ELSE "Reset cancelled."
    /\ pc' = "loop"
    /\ last' = "key_r"
    /\ UNCHANGED <<load_path, image, drag, boxes_type, output_path, mouse_pos, fs, probe>>

\* r: the answer typed at the prompt decides
KeyReset(confirm) ==
    /\ pc = "waitKey"
    /\ boxes' = IF strip_lower(confirm) = "yes" THEN <<>> ELSE boxes
    /\ printed' = IF strip_lower(confirm) = "yes"
                   THEN "All boxes removed." ELSE "Reset cancelled."
    /\ pc' = "loop"
    /\ last' = "key_r"
    /\ UNCHANGED <<load_path, image, drag, boxes_type, output_path, mouse_pos, fs, probe>>

\* d
KeyDelete ==
    /\ pc = "waitKey"
    /\ LET idx == box_under_disp_point(boxes, mouse_pos, scale)
       IN  IF idx = NoIndex
           THEN /\ boxes' = boxes
                /\ printed' = "No box under mouse to delete."
                /\ pc' = "loop"
           ELSE IF PopRaises(boxes, idx)
           THEN /\ boxes' = boxes
                /\ printed' = "Traceback"
                /\ pc' = "crashed"
           ELSE /\ boxes' = Pop(boxes, idx)
                /\ printed' = "Deleted box"
                /\ pc' = "loop"
    /\ last' = "key_d"
    /\ UNCHANGED <<load_path, image, drag, boxes_type, output_path, mouse_pos, fs, probe>>

(***************************************************************************)
(* The full program: processes started one after another on the same files *)
(***************************************************************************)
Init ==
    /\ pc = "off"
    /\ last = "off"
    /\ load_path = NoPath
    /\ image_path = ""
    /\ h_orig = 0
    /\ w_orig = 0
    /\ scale = [num |-> 1, den |-> 1]
    /\ drawing = FALSE
    /\ start_pt_disp = None
    /\ cur_pt_disp = None
    /\ boxes_type = "list"
    /\ boxes = <<>>
    /\ output_path = NoPath
    /\ mouse_pos = <<0, 0>>
    /\ printed = ""
    /\ \E f \in InputFiles : fs = [p \in Paths |-> IF p = BoxesPath THEN f ELSE NoFile]
    /\ probe = NoProbe

Next ==
    \/ \E out \in {NoPath, BoxesPath}, load \in {NoPath, BoxesPath} :
           Start(PageImage, out, load)
    \/ Draw
    \/ \E e \in MouseEvents, p \in SpecPoints : Mouse(e, p)
    \/ KeyQuit
    \/ KeyHelp
    \/ KeyNone
    \/ \E io \in {"ok", "open_fails", "write_fails"} : KeySave(io)
    \/ KeyUndo
    \/ \E confirm \in ConfirmAnswers : KeyReset(confirm)
    \/ KeyDelete

Spec == Init /\ [][Next]_vars

(***************************************************************************)
(* One editing session: a process started on an image without --load and   *)
(* without --output, nothing on disk, and the pointer and editing keys.    *)
(***************************************************************************)
InitEdit ==
    /\ pc = "loop"
    /\ last = "init"
    /\ fs = [p \in Paths |-> NoFile]
    /\ probe = NoProbe
    /\ \E img \in EditImages : Constructed(img, NoPath, NoPath)

NextEdit ==
    \/ Draw
    \/ \E e \in MouseEvents, p \in EditPoints : Mouse(e, p)
    \/ KeyNone
    \/ KeyUndo
    \/ \E confirm \in ConfirmAnswers : KeyReset(confirm)
    \/ KeyDelete

SpecEdit == InitEdit /\ [][NextEdit]_vars

(***************************************************************************)
(* The two coordinate mappings applied in turn to one image-space point:   *)
(* orig_to_disp on the rectangle [x, y, 1, 1] at the point, then           *)
(* disp_to_orig on the display point it gives.                             *)
(***************************************************************************)
\* in-bounds points that between them take every x and every y of the image
ProbePoints(img) == { <<v % img.w, v % img.h>> : v \in 0..(Max(img.w, img.h) - 1) }

InitMap ==
    /\ pc = "loop"
    /\ last = "init"
    /\ fs = [p \in Paths |-> NoFile]
    /\ \E img \in MapImages :
         /\ Constructed(img, NoPath, NoPath)
         /\ \E p \in ProbePoints(img) :
              probe = [stage |-> "orig", orig |-> p, disp |-> <<0, 0>>, back |-> <<0, 0>>]

ToDisplay ==
    /\ probe.stage = "orig"
    /\ LET d == orig_to_disp(PyBox(probe.orig[1], probe.orig[2], 1, 1), scale)
       IN  probe' = [probe EXCEPT !.stage = "disp", !.disp = <<d[1], d[2]>>]
    /\ UNCHANGED <<pc, last, session, printed, fs>>

ToOrig ==
    /\ probe.stage = "disp"
    /\ probe' = [probe EXCEPT !.stage = "back",
                              !.back = disp_to_orig(probe.disp, scale, w_orig, h_orig)]
    /\ UNCHANGED <<pc, last, session, printed, fs>>

NextMap == ToDisplay \/ ToOrig

SpecMap == InitMap /\ [][NextMap]_vars

(***************************************************************************)
(* Properties of the editing session (SpecEdit)                            *)
(***************************************************************************)
\* the box, converted to display space, contains the point, edges included
InDisplayRect(box, pt) ==
    LET d == orig_to_disp(box, scale)
    IN  /\ d[1] <= pt[1] /\ pt[1] <= d[1] + d[3]
        /\ d[2] <= pt[2] /\ pt[2] <= d[2] + d[4]

HitSet(bxs, pt) == {i \in 1..Len(bxs) : InDisplayRect(bxs[i], pt)}

RemoveAt(bxs, i) == SubSeq(bxs, 1, i - 1) \o SubSeq(bxs, i + 1, Len(bxs))

\* the display surface of the image: cv2.resize to (int(w * scale), int(h * scale))
OnDisplay(pt) ==
    /\ 0 <= pt[1] /\ pt[1] < (w_orig * scale.num) \div scale.den
    /\ 0 <= pt[2] /\ pt[2] < (h_orig * scale.num) \div scale.den

\* C1: started from an empty list, whatever pointer events and undo, delete
\* and reset keys follow, the list never holds a box with w <= 0 or h <= 0.
C1_NoDegenerateBox ==
    \A i \in 1..Len(boxes) :
        Len(boxes[i]) = 4 /\ boxes[i][3].val > 0 /\ boxes[i][4].val > 0

\* a release outside the display surface that added nothing to a list that
\* holds boxes
C1_Witness ==
    /\ last = EVENT_LBUTTONUP
    /\ printed = ""
    /\ ~OnDisplay(mouse_pos)
    /\ boxes # <<>>

\* C2: every box appended by a drag lies inside the original image:
\* 0 <= x, 0 <= y, x + w <= width - 1, y + h <= height - 1.
C2_BoxesInsideImage ==
    \A i \in 1..Len(boxes) :
        LET b == Ints(boxes[i])
        IN  /\ 0 <= b[1] /\ b[1] + b[3] <= w_orig - 1
            /\ 0 <= b[2] /\ b[2] + b[4] <= h_orig - 1

\* a box that spans the whole width, from a drag that began left of the
\* display surface and ended beyond its right edge
C2_Witness ==
    \E i \in 1..Len(boxes) :
        LET b == Ints(boxes[i])
        IN  b[1] = 0 /\ b[1] + b[3] = w_orig - 1 /\ b[2] + b[4] < h_orig - 1

\* C3: a press leaves the session Dragging with start = current = the press
\* point; a release leaves it Idle with both points cleared; and the drawing
\* flag is true exactly when both points are present.
C3_DragStateMachine ==
    /\ last = EVENT_LBUTTONDOWN =>
           drawing /\ start_pt_disp = mouse_pos /\ cur_pt_disp = mouse_pos
    /\ last = EVENT_LBUTTONUP =>
           ~drawing /\ start_pt_disp = None /\ cur_pt_disp = None
    /\ drawing <=> (start_pt_disp # None /\ cur_pt_disp # None)

\* Idle, with both points cleared, after the release of a drag that added a box
C3_Witness ==
    /\ last = EVENT_LBUTTONUP
    /\ printed = "Added box"
    /\ ~drawing
    /\ start_pt_disp = None
    /\ cur_pt_disp = None

\* C4: box_under_disp_point returns the smallest index whose box contains the
\* point in display space, and None when no box contains it.
C4_FirstMatchWins ==
    \A p \in EditPoints :
        LET idx == box_under_disp_point(boxes, p, scale)
            hits == HitSet(boxes, p)
        IN  IF hits = {} THEN idx = NoIndex
            ELSE idx + 1 \in hits /\ \A j \in hits : idx + 1 <= j

\* two different boxes that both contain the cursor, the older one found
C4_Witness ==
    /\ Len(boxes) >= 2
    /\ boxes[1] # boxes[2]
    /\ {1, 2} \subseteq HitSet(boxes, mouse_pos)
    /\ box_under_disp_point(boxes, mouse_pos, scale) = 0

\* C5: the delete key with the cursor inside exactly one box removes that box
\* and nothing else, the others keeping their order; with the cursor in no
\* box it leaves the list as it is.
C5_DeleteUnderCursor ==
    [][last' = "key_d" =>
          LET hits == HitSet(boxes, mouse_pos)
          IN  /\ Cardinality(hits) = 1 =>
                    /\ \A i \in hits : boxes' = RemoveAt(boxes, i)
                    /\ Len(boxes') = Len(boxes) - 1
              /\ hits = {} => boxes' = boxes]_vars

\* after a delete that removed a box: boxes are left, none of them under the
\* cursor, so the cursor was inside the removed box only
C5_Witness ==
    /\ last = "key_d"
    /\ printed = "Deleted box"
    /\ boxes # <<>>
    /\ HitSet(boxes, mouse_pos) = {}

\* C6: on the 2000 x 1000 image the scale is 1/2 and a drag between display
\* points (100,100) and (300,200), in either direction, appends exactly
\* [200, 200, 400, 200]; in general a release that ends a drag appends
\* [min(x0,x1), min(y0,y1), |x1-x0|, |y1-y0|] of the two mapped corners when
\* both sides are positive, and nothing otherwise.
C6_DragAppendsNormalisedBox ==
    [][last' = EVENT_LBUTTONUP /\ drawing /\ start_pt_disp # None =>
          LET p0 == disp_to_orig(start_pt_disp, scale, w_orig, h_orig)
              p1 == disp_to_orig(mouse_pos', scale, w_orig, h_orig)
              lo == <<Min(p0[1], p1[1]), Min(p0[2], p1[2])>>
              hi == <<Max(p0[1], p1[1]), Max(p0[2], p1[2])>>
          IN  /\ boxes' = IF hi[1] > lo[1] /\ hi[2] > lo[2]
                          THEN Append(boxes, PyBox(lo[1], lo[2], hi[1] - lo[1], hi[2] - lo[2]))
                          ELSE boxes
              /\ (/\ h_orig = 1000 /\ w_orig = 2000
                  /\ {start_pt_disp, mouse_pos'} = {<<100, 100>>, <<300, 200>>})
                 => /\ 2 * scale.num = scale.den
                    /\ boxes' = Append(boxes, PyBox(200, 200, 400, 200))]_vars

\* the box of the scenario, appended by a drag from (300,200) back to (100,100)
C6_Witness ==
    /\ last = EVENT_LBUTTONUP
    /\ printed = "Added box"
    /\ h_orig = 1000 /\ w_orig = 2000
    /\ mouse_pos = <<100, 100>>
    /\ boxes[Len(boxes)] = PyBox(200, 200, 400, 200)

(***************************************************************************)
(* Properties of the coordinate mappings (SpecMap)                         *)
(***************************************************************************)
RoundTripError == Max(Abs(probe.back[1] - probe.orig[1]), Abs(probe.back[2] - probe.orig[2]))

\* C7 as stated: for every scale in (0,1] and every in-bounds point, mapping
\* to display space and back recovers each coordinate within 1 pixel.
C7_RoundTripWithinOne == probe.stage = "back" => RoundTripError <= 1

\* C7 as amended: for every scale of at least 1/3 the round trip recovers each
\* coordinate within 1 pixel; for every scale it recovers each coordinate
\* within 1/(2 * scale) + 1/2 pixels.
C7_RoundTripBound ==
    probe.stage = "back" =>
        /\ 3 * scale.num >= scale.den => RoundTripError <= 1
        /\ (2 * RoundTripError - 1) * scale.num <= scale.den

\* a round trip at scale 1/3 that is off by exactly one pixel
C7_Witness ==
    /\ probe.stage = "back"
    /\ 3 * scale.num = scale.den
    /\ RoundTripError = 1

(***************************************************************************)
(* Properties of saving and loading (Spec)                                 *)
(***************************************************************************)
\* the document holds exactly the list bxs under "boxes", as arrays of numbers
HoldsExactly(file, bxs) ==
    /\ file.boxes_type = "array"
    /\ Len(file.boxes) = Len(bxs)
    /\ \A i \in 1..Len(bxs) :
          /\ Len(file.boxes[i]) = Len(bxs[i])
          /\ \A j \in 1..Len(bxs[i]) :
                file.boxes[i][j].type = "number" /\ file.boxes[i][j].val = bxs[i][j].val

\* the process has just been constructed with --load naming this file
LoadedFrom(file) == last = "init" /\ load_path # NoPath /\ file = fs[load_path]

\* C8: save writes exactly the in-memory list, in order, under "boxes",
\* with "image" and "shape" = [height, width], and loading that file yields an
\* identical list: right after a save, and in a later process started with
\* --load on a file that a save wrote.
C8_SaveLoadRoundTrip ==
    /\ (last = "key_s" /\ pc = "loop") =>
          LET file == fs[output_path]
              back == load_boxes(file, "list", <<>>)
          IN  /\ file.state = "json" /\ file.top = "object" /\ file.has_boxes
              /\ file.image = image_path
              /\ file.shape = <<h_orig, w_orig>>
              /\ HoldsExactly(file, boxes)
              /\ back.type = "list" /\ back.val = boxes
    /\ \A p \in Paths :
          (LoadedFrom(fs[p]) /\ load_path = p /\ fs[p].state = "json" /\ fs[p].image # "") =>
              boxes_type = "list" /\ HoldsExactly(fs[p], boxes)

\* a process that loaded [[10,20,30,40],[5,5,5,5]] from a file written by the
\* save of an earlier process
C8_Witness ==
    /\ last = "init"
    /\ load_path # NoPath
    /\ fs[load_path].state = "json"
    /\ fs[load_path].image = image_path
    /\ boxes = <<PyBox(10, 20, 30, 40), PyBox(5, 5, 5, 5)>>

\* C9: loading a file whose "boxes" array mixes well-formed entries with
\* malformed ones yields exactly the well-formed entries, in file order.
C9_LoadDropsMalformed ==
    \A p \in Paths :
        (/\ LoadedFrom(fs[p]) /\ load_path = p
         /\ fs[p].state = "json" /\ fs[p].top = "object" /\ fs[p].has_boxes
         /\ fs[p].boxes_type = "array") =>
            /\ pc = "loop"
            /\ boxes_type = "list"
            /\ boxes = SelectSeq(json_load_boxes(fs[p].boxes), IsBox)

\* C10: load_boxes returns normally and, for a file that is unreadable, not
\* JSON, not an object, without "boxes", or with a "boxes" that is no array,
\* leaves the box list the empty list it was at construction.
C10_LoadKeepsState ==
    \A p \in Paths :
        (/\ LoadedFrom(fs[p]) /\ load_path = p
         /\ \/ fs[p].state # "json"
            \/ fs[p].top # "object"
            \/ ~fs[p].has_boxes
            \/ fs[p].boxes_type # "array") =>
            /\ pc = "loop"
            /\ boxes_type = "list"
            /\ boxes = <<>>

(***************************************************************************)
(* Properties of the key handlers and of the frame of each step            *)
(***************************************************************************)
\* C11: a save that fails (the file cannot be opened, or the write fails)
\* leaves the box list, the drag state and the output path as they were, and
\* the exception leaves save_boxes and run instead of being swallowed.
C11_FailedSaveKeepsState ==
    [][(last' = "key_s" /\ printed' # "Saved boxes") =>
          /\ pc' = "crashed"
          /\ printed' = "Traceback"
          /\ boxes' = boxes /\ boxes_type' = boxes_type
          /\ UNCHANGED drag
          /\ output_path' = output_path]_vars

\* a save that failed in the middle of a drag, with boxes in the list
C11_Witness ==
    /\ last = "key_s"
    /\ pc = "crashed"
    /\ drawing
    /\ boxes # <<>>
    /\ fs[output_path] = GarbageFile


\* C12: undo on a non-empty list removes exactly its last element and leaves
\* the earlier boxes as they were, in order; on an empty list it changes
\* nothing and raises nothing.
C12_UndoRemovesLast ==
    [][last' = "key_u" =>
          /\ pc' = "loop"
          /\ IF boxes # <<>>
             THEN /\ Len(boxes') = Len(boxes) - 1
                  /\ \A i \in 1..Len(boxes') : boxes'[i] = boxes[i]
             ELSE boxes' = <<>>]_vars

\* after an undo that removed a box and left an earlier one
C12_Witness ==
    /\ last = "key_u"
    /\ printed = "Undone last box"
    /\ pc = "loop"
    /\ boxes # <<>>


\* C13 as stated: whenever the reset command is issued, the box list is empty
\* afterwards; nothing in the session can leave the boxes in place.
C13_ResetAlwaysClears == last = "key_r" => boxes = <<>>

\* C13 as amended: the reset command asks for confirmation; when the answer is
\* yes the list is empty afterwards ("All boxes removed."), and on any other
\* answer the list is left as it was ("Reset cancelled.").
C13_ResetClearsWhenConfirmed ==
    [][last' = "key_r" =>
          /\ pc' = "loop"
          /\ \/ printed' = "All boxes removed." /\ boxes' = <<>>
             \/ printed' = "Reset cancelled." /\ boxes' = boxes]_vars

\* after a reset that was not confirmed: the boxes are still there
C13_Witness ==
    /\ last = "key_r"
    /\ printed = "Reset cancelled."
    /\ Len(boxes) = MaxBoxes


\* C14: a pointer-move event changes, of the drag state and the box list, only
\* the current point, and only while a drag is active: in Idle the drawing
\* flag, the start point, the current point and the boxes are unchanged; in
\* Dragging the flag, the start point and the boxes are unchanged and the
\* current point becomes the pointer position.
C14_MoveOnlyUpdatesCurrent ==
    [][last' = EVENT_MOUSEMOVE =>
          /\ boxes' = boxes /\ boxes_type' = boxes_type
          /\ drawing' = drawing
          /\ start_pt_disp' = start_pt_disp
          /\ cur_pt_disp' = IF drawing THEN mouse_pos' ELSE cur_pt_disp
          /\ UNCHANGED <<pc, image, output_path, fs>>]_vars

\* a move during a drag has carried the current point away from the start, with
\* a box already in the list
C14_Witness ==
    /\ last = EVENT_MOUSEMOVE
    /\ drawing
    /\ cur_pt_disp # start_pt_disp
    /\ cur_pt_disp = mouse_pos
    /\ boxes # <<>>


\* C15: rendering is a pure read: a draw() step leaves the box list, the drag
\* state, the scale and the image dimensions unchanged in every state, and the
\* canvas it returns holds the in-progress rectangle exactly when a drag is
\* active (and one rectangle per box).
C15_DrawIsPureRead ==
    [][last' = "draw" =>
          /\ boxes' = boxes /\ boxes_type' = boxes_type
          /\ UNCHANGED drag
          /\ scale' = scale /\ h_orig' = h_orig /\ w_orig' = w_orig
          /\ mouse_pos' = mouse_pos /\ fs' = fs
          /\ pc' = "waitKey" =>
                /\ (canvas.rubber_band # None) <=> drawing
                /\ drawing => canvas.rubber_band = <<start_pt_disp, cur_pt_disp>>
                /\ Len(canvas.rects) = Len(boxes)
                /\ canvas' = canvas]_vars

\* a frame rendered in the middle of a drag, over a box already in the list
C15_Witness ==
    /\ last = "draw"
    /\ pc = "waitKey"
    /\ drawing
    /\ cur_pt_disp # start_pt_disp
    /\ boxes # <<>>
    /\ canvas.rubber_band = <<start_pt_disp, cur_pt_disp>>


\* C16: the scale is min(1, C / maxDim) for the cap C = 1000, so it lies in
\* (0, 1]; when the larger dimension of the image is at most C the scale is
\* exactly 1 and both mappings are the identity on in-bounds integer points.
C16_ScaleSelection ==
    LET maxDim == Max(h_orig, w_orig)
    IN  /\ scale.num > 0 /\ scale.den > 0
        /\ scale.num <= scale.den
        /\ scale.num * maxDim = scale.den * Min(maxDim, MAX_DISPLAY_DIM)
        /\ maxDim <= MAX_DISPLAY_DIM =>
              /\ scale.num = scale.den
              /\ probe.stage \in {"disp", "back"} => probe.disp = probe.orig
              /\ probe.stage = "back" => probe.back = probe.disp

\* an image exactly at the cap: a point of its last column has gone to display
\* space and back unchanged
C16_Witness ==
    /\ Max(h_orig, w_orig) = MAX_DISPLAY_DIM
    /\ probe.stage = "back"
    /\ probe.orig[1] = w_orig - 1 /\ probe.orig[2] > 0
    /\ probe.back = probe.orig


\* bxs is an initial segment of cxs
IsPrefix(bxs, cxs) ==
    /\ Len(bxs) <= Len(cxs)
    /\ \A i \in 1..Len(bxs) : cxs[i] = bxs[i]

\* C17: the box list is append-only except for undo, delete and reset: every
\* step other than undo, delete, reset or the load of a new session leaves the
\* existing boxes as an unchanged prefix of the new list; only a button
\* release makes the list longer, by one box, placed at the end.
C17_AppendOnly ==
    [][last' \notin {"key_u", "key_d", "key_r", "init"} =>
          /\ boxes_type' = boxes_type
          /\ IsPrefix(boxes, boxes')
          /\ Len(boxes') <= Len(boxes) + 1
          /\ boxes' # boxes => last' = EVENT_LBUTTONUP]_vars

\* a release has appended a box behind a different, older one
C17_Witness ==
    /\ last = EVENT_LBUTTONUP
    /\ printed = "Added box"
    /\ Len(boxes) = 2
    /\ boxes[1] # boxes[2]


\* C18: the delete command never fails with an index error: the index it
\* removes is the one the hit test returns for the current list and pointer,
\* which is either None or an index in [0, len(boxes)), so the d key always
\* returns to the loop, having removed one box or none.
C18_DeleteNeverRaises ==
    [][last' = "key_d" =>
          LET idx == box_under_disp_point(boxes, mouse_pos, scale)
          IN  /\ idx = NoIndex \/ idx \in 0..(Len(boxes) - 1)
              /\ ~(idx # NoIndex /\ PopRaises(boxes, idx))
              /\ pc' = "loop"
              /\ printed' \in {"Deleted box", "No box under mouse to delete."}
              /\ Len(boxes') = IF idx = NoIndex THEN Len(boxes) ELSE Len(boxes) - 1]_vars

\* the d key has removed a box from a full list, and the box that is left is not
\* under the pointer
C18_Witness ==
    /\ last = "key_d"
    /\ printed = "Deleted box"
    /\ pc = "loop"
    /\ Len(boxes) = MaxBoxes - 1
    /\ box_under_disp_point(boxes, mouse_pos, scale) = NoIndex


\* C19: only a button release that ends an active drag can add a box.  A press
\* received while Dragging restarts the drag at the new point and commits
\* nothing; a release received in Idle appends nothing and leaves the session
\* in Idle.
C19_OnlyReleaseOfDragAdds ==
    [][/\ Len(boxes') > Len(boxes) =>
             /\ last' = EVENT_LBUTTONUP
             /\ drawing /\ start_pt_disp # None
             /\ ~drawing'
       /\ (last' = EVENT_LBUTTONDOWN /\ drawing) =>
             /\ boxes' = boxes
             /\ drawing'
             /\ start_pt_disp' = mouse_pos' /\ cur_pt_disp' = mouse_pos'
       /\ (last' = EVENT_LBUTTONUP /\ ~drawing) =>
             /\ boxes' = boxes
             /\ ~drawing'
             /\ start_pt_disp' = None /\ cur_pt_disp' = None]_vars

\* the first box of a session, added by the release that ended its drag
C19_Witness ==
    /\ last = EVENT_LBUTTONUP
    /\ printed = "Added box"
    /\ ~drawing /\ start_pt_disp = None /\ cur_pt_disp = None
    /\ Len(boxes) = 1


\* C20: key commands issued during a drag do not disturb it: undo, delete
\* under the cursor, reset and save leave the drawing flag and the start and
\* current points as they were, and the release that ends the drag appends its
\* box, when it is not degenerate, as the last element of the list the key
\* commands left behind.
C20_KeysKeepDrag ==
    [][/\ (last' \in {"key_u", "key_d", "key_r", "key_s"} /\ drawing) =>
             /\ drawing'
             /\ start_pt_disp' = start_pt_disp
             /\ cur_pt_disp' = cur_pt_disp
       /\ (last' = EVENT_LBUTTONUP /\ drawing) =>
             LET p0 == disp_to_orig(start_pt_disp, scale, w_orig, h_orig)
                 p1 == disp_to_orig(mouse_pos', scale, w_orig, h_orig)
             IN  IF p0[1] # p1[1] /\ p0[2] # p1[2]
                 THEN /\ Len(boxes') = Len(boxes) + 1
                      /\ IsPrefix(boxes, boxes')
                      /\ boxes'[Len(boxes')] =
                            PyBox(Min(p0[1], p1[1]), Min(p0[2], p1[2]),
                                  Abs(p1[1] - p0[1]), Abs(p1[2] - p0[2]))
                 ELSE boxes' = boxes]_vars

\* an undo has removed a box in the middle of a drag, and the drag is still on
C20_Witness ==
    /\ last = "key_u"
    /\ printed = "Undone last box"
    /\ drawing
    /\ start_pt_disp # None
    /\ cur_pt_disp # start_pt_disp

====
